---- MODULE Spec2Model ----
(***************************************************************************)
(* Model of the distributed calculator server: the line protocol codec     *)
(* (src/protocol.rs), the operation parser (bin/server/operation.rs), the  *)
(* accumulator (bin/server/calculator.rs), the per-connection handler      *)
(* (bin/server/handle_client.rs) and the accept loop (bin/server/main.rs). *)
(*                                                                         *)
(* Byte strings are TLA+ strings; they are scanned character by character  *)
(* with SubSeq, so that splitting, trimming, parsing and formatting are    *)
(* computed the way the code computes them.                                *)
(***************************************************************************)
EXTENDS Integers, Sequences, FiniteSets, TLC

\* ------------------------------------------------------------------ bounds

\* Connections the listener accepts in the concurrent specification.
MaxConn == 2
\* Request lines read by all handlers together in the concurrent specification.
MaxReq == 3
\* Request lines read on the single connection of the wire specification.
MaxWireReq == 3
\* Lines in the client's input file.
MaxFile == 2
\* Events sent to the logger.
MaxEvents == 3
\* Request lines read by all handlers together in the fair specification.
MaxFairReq == 2
\* Request lines read by all handlers together in the life-cycle specification.
MaxLifeReq == 2
\* Request lines read on the single connection of the parser specification.
MaxParseReq == 2
\* Tokens on a line handed to the decoder.
MaxTokens == 3
\* Request lines read on the single connection of the arity specification.
MaxArityReq == 2

\* ------------------------------------------------------- program constants

\* Number of values of the accumulator's type, u8.
U8Range == 256

\* ----------------------------------------------------------------- strings

CharAt(s, i) == SubSeq(s, i, i)

\* char::is_whitespace, restricted to the ASCII characters the model sends.
is_whitespace(ch) == ch \in {" ", "\n", "\t", "\r"}

\* str::trim_end
RECURSIVE trim_end(_)
trim_end(s) ==
    IF Len(s) > 0 /\ is_whitespace(CharAt(s, Len(s)))
    THEN trim_end(SubSeq(s, 1, Len(s) - 1))
    ELSE s

RECURSIVE SplitFrom(_, _, _, _)
SplitFrom(s, i, cur, acc) ==
    IF i > Len(s)
    THEN (IF cur = "" THEN acc ELSE Append(acc, cur))
    ELSE IF is_whitespace(CharAt(s, i))
         THEN SplitFrom(s, i + 1, "", IF cur = "" THEN acc ELSE Append(acc, cur))
         ELSE SplitFrom(s, i + 1, cur \o CharAt(s, i), acc)

\* str::split_whitespace().collect(): the maximal runs of non-whitespace.
split_whitespace(s) == SplitFrom(s, 1, "", <<>>)

\* [&str]::join(sep)
RECURSIVE join(_, _)
join(tokens, sep) ==
    IF Len(tokens) = 0 THEN ""
    ELSE IF Len(tokens) = 1 THEN tokens[1]
    ELSE tokens[1] \o sep \o join(Tail(tokens), sep)

Digits == "0123456789"

\* char::to_digit(10); -1 stands for None.
to_digit(ch) ==
    IF \E d \in 0..9 : CharAt(Digits, d + 1) = ch
    THEN CHOOSE d \in 0..9 : CharAt(Digits, d + 1) = ch
    ELSE -1

\* u8::to_string
RECURSIVE u8_to_string(_)
u8_to_string(n) ==
    IF n < 10 THEN CharAt(Digits, n + 1)
    ELSE u8_to_string(n \div 10) \o CharAt(Digits, (n % 10) + 1)

ParseOk(n) == [ok |-> TRUE, val |-> n, err |-> ""]
ParseErr(e) == [ok |-> FALSE, val |-> 0, err |-> e]

EmptyErr == "cannot parse integer from empty string"
InvalidDigitErr == "invalid digit found in string"
PosOverflowErr == "number too large to fit in target type"

\* The digit loop of u8::from_str: the digit is validated before the
\* multiplication's overflow is reported, the addition is checked last.
RECURSIVE ParseDigits(_, _, _)
ParseDigits(s, i, result) ==
    IF i > Len(s) THEN ParseOk(result)
    ELSE LET x == to_digit(CharAt(s, i))
             mul == result * 10
         IN  IF x < 0 THEN ParseErr(InvalidDigitErr)
             ELSE IF mul >= U8Range THEN ParseErr(PosOverflowErr)
             ELSE IF mul + x >= U8Range THEN ParseErr(PosOverflowErr)
             ELSE ParseDigits(s, i + 1, mul + x)

\* str::parse::<u8>(): an optional leading '+', no '-', at least one digit.
parse_u8(s) ==
    IF s = "" THEN ParseErr(EmptyErr)
    ELSE IF s = "+" \/ s = "-" THEN ParseErr(InvalidDigitErr)
    ELSE IF CharAt(s, 1) = "+" THEN ParseDigits(s, 2, 0)
    ELSE ParseDigits(s, 1, 0)

\* ---------------------------------------------------------------- protocol

Operation(args) == [kind |-> "Operation", arg |-> args]
Get == [kind |-> "Get", arg |-> ""]
Ok == [kind |-> "Ok", arg |-> ""]
ErrorOperation(args) == [kind |-> "ErrorOperation", arg |-> args]
Value(val) == [kind |-> "Value", arg |-> val]
SynthaxError(val) == [kind |-> "SynthaxError", arg |-> val]

\* Protocol::from_str taking OP with any number of arguments.
from_str_any_arity(message) ==
    IF Len(message) >= 1 /\ message[1] = "OP"
    THEN Operation(join(Tail(message), " "))
    ELSE IF message = <<"GET">> THEN Get
    ELSE IF message = <<"OK">> THEN Ok
    ELSE IF Len(message) >= 1 /\ message[1] = "ERROR"
    THEN ErrorOperation(join(Tail(message), " "))
    ELSE IF Len(message) = 2 /\ message[1] = "VALUE" THEN Value(message[2])
    ELSE SynthaxError(join(message, " "))

\* Protocol::from_str: the match on the token slice, arms in source order.
from_str(message) ==
    IF Len(message) = 3 /\ message[1] = "OP"
    THEN Operation(join(Tail(message), " "))
    ELSE IF message = <<"GET">> THEN Get
    ELSE IF message = <<"OK">> THEN Ok
    ELSE IF Len(message) >= 1 /\ message[1] = "ERROR"
    THEN ErrorOperation(join(Tail(message), " "))
    ELSE IF Len(message) = 2 /\ message[1] = "VALUE" THEN Value(message[2])
    ELSE SynthaxError(join(message, " "))

\* The byte 0xFF, which occurs in no UTF-8 text, is written as this character.
Byte0xFF == "#"

\* Utf8Error::valid_up_to: the number of bytes before the first invalid one,
\* the length when there is none.
RECURSIVE valid_up_to(_, _)
valid_up_to(bytes, i) ==
    IF i > Len(bytes) \/ CharAt(bytes, i) = Byte0xFF THEN i - 1
    ELSE valid_up_to(bytes, i + 1)

\* std::str::from_utf8(bytes).is_ok()
is_utf8(bytes) == valid_up_to(bytes, 1) = Len(bytes)

\* impl Display for Utf8Error, for an invalid sequence of one byte.
Utf8Error(bytes) ==
    "invalid utf-8 sequence of 1 bytes from index "
        \o u8_to_string(valid_up_to(bytes, 1))

\* Protocol::from_bytes
from_bytes(bytes) ==
    IF is_utf8(bytes)
    THEN from_str(split_whitespace(bytes))
    ELSE SynthaxError(Utf8Error(bytes))

\* Protocol::to_bytes
to_bytes(p) ==
    CASE p.kind = "Operation" -> "OP " \o p.arg \o "\n"
      [] p.kind = "Get" -> "GET\n"
      [] p.kind = "Ok" -> "OK\n"
      [] p.kind = "ErrorOperation" -> "ERROR \"" \o p.arg \o "\"\n"
      [] p.kind = "Value" -> "VALUE " \o p.arg \o "\n"
      [] p.kind = "SynthaxError" -> p.arg

\* impl Display for Protocol (to_string)
Display(p) ==
    CASE p.kind = "Operation" -> "OP " \o p.arg \o "\n"
      [] p.kind = "Get" -> "GET\n"
      [] p.kind = "Ok" -> "OK\n"
      [] p.kind = "ErrorOperation" -> "ERROR \"" \o p.arg \o "\"\n"
      [] p.kind = "Value" -> "VALUE " \o p.arg \o "\n"
      [] p.kind = "SynthaxError" -> p.arg

\* --------------------------------------------------------------- operation

Add(n) == [op |-> "Add", n |-> n]
Sub(n) == [op |-> "Sub", n |-> n]
Mul(n) == [op |-> "Mul", n |-> n]
Div(n) == [op |-> "Div", n |-> n]
NoOp == [op |-> "None", n |-> 0]

OpOk(o) == [ok |-> TRUE, op |-> o, err |-> ""]
OpErr(e) == [ok |-> FALSE, op |-> NoOp, err |-> e]

\* Operation::from_str building Div without looking at the divisor.
Operation_from_str_no_zero_check(tokens) ==
    LET vector == split_whitespace(tokens)
    IN  IF Len(vector) # 2 THEN OpErr("expected 2 arguments")
        ELSE LET operation == vector[1]
                 operand == parse_u8(vector[2])
             IN  IF ~operand.ok
                 THEN OpErr("parsing error: invalid integer: " \o operand.err)
                 ELSE CASE operation = "+" -> OpOk(Add(operand.val))
                        [] operation = "-" -> OpOk(Sub(operand.val))
                        [] operation = "*" -> OpOk(Mul(operand.val))
                        [] operation = "/" -> OpOk(Div(operand.val))
                        [] OTHER ->
                             OpErr("parsing error: unknown operation: " \o operation)

\* Operation::from_str matching the operator before it parses the operand.
Operation_from_str_operator_first(tokens) ==
    LET vector == split_whitespace(tokens)
    IN  IF Len(vector) # 2 THEN OpErr("expected 2 arguments")
        ELSE LET operation == vector[1]
                 operand == parse_u8(vector[2])
             IN  IF operation \notin {"+", "-", "*", "/"}
                 THEN OpErr("parsing error: unknown operation: " \o operation)
                 ELSE IF ~operand.ok
                 THEN OpErr("parsing error: invalid integer: " \o operand.err)
                 ELSE CASE operation = "+" -> OpOk(Add(operand.val))
                        [] operation = "-" -> OpOk(Sub(operand.val))
                        [] operation = "*" -> OpOk(Mul(operand.val))
                        [] operation = "/" ->
                             IF operand.val = 0 THEN OpErr("division by zero")
                             ELSE OpOk(Div(operand.val))

\* <Operation as FromStr>::from_str
Operation_from_str(tokens) ==
    LET vector == split_whitespace(tokens)
    IN  IF Len(vector) # 2 THEN OpErr("expected 2 arguments")
        ELSE LET operation == vector[1]
                 operand == parse_u8(vector[2])
             IN  IF ~operand.ok
                 THEN OpErr("parsing error: invalid integer: " \o operand.err)
                 ELSE CASE operation = "+" -> OpOk(Add(operand.val))
                        [] operation = "-" -> OpOk(Sub(operand.val))
                        [] operation = "*" -> OpOk(Mul(operand.val))
                        [] operation = "/" ->
                             IF operand.val = 0 THEN OpErr("division by zero")
                             ELSE OpOk(Div(operand.val))
                        [] OTHER ->
                             OpErr("parsing error: unknown operation: " \o operation)

\* -------------------------------------------------------------- calculator

\* Calculator::new
Calculator_new == [accumulation |-> 0]

\* Calculator::apply with saturating instead of wrapping arithmetic.
apply_saturating(calc, o) ==
    CASE o.op = "Add" ->
           [panic |-> FALSE,
            calc |-> [accumulation |->
                        IF calc.accumulation + o.n >= U8Range THEN U8Range - 1
                        ELSE calc.accumulation + o.n]]
      [] o.op = "Sub" ->
           [panic |-> FALSE,
            calc |-> [accumulation |->
                        IF calc.accumulation < o.n THEN 0
                        ELSE calc.accumulation - o.n]]
      [] o.op = "Mul" ->
           [panic |-> FALSE,
            calc |-> [accumulation |->
                        IF calc.accumulation * o.n >= U8Range THEN U8Range - 1
                        ELSE calc.accumulation * o.n]]
      [] o.op = "Div" ->
           IF o.n = 0 THEN [panic |-> TRUE, calc |-> calc]
           ELSE [panic |-> FALSE, calc |-> [accumulation |-> calc.accumulation \div o.n]]

\* Calculator::apply; wrapping_div panics on a zero divisor.
apply(calc, o) ==
    CASE o.op = "Add" ->
           [panic |-> FALSE, calc |-> [accumulation |-> (calc.accumulation + o.n) % U8Range]]
      [] o.op = "Sub" ->
           [panic |-> FALSE, calc |-> [accumulation |-> (calc.accumulation - o.n) % U8Range]]
      [] o.op = "Mul" ->
           [panic |-> FALSE, calc |-> [accumulation |-> (calc.accumulation * o.n) % U8Range]]
      [] o.op = "Div" ->
           IF o.n = 0 THEN [panic |-> TRUE, calc |-> calc]
           ELSE [panic |-> FALSE, calc |-> [accumulation |-> calc.accumulation \div o.n]]

\* Calculator::accumulation
accumulation(calc) == calc.accumulation

\* ------------------------------------------------------------------- state

Conns == 1..MaxConn

VARIABLES
    listener,         \* run_server: "init", "listening" or "bind_failed"
    calculator,       \* the shared Calculator: <<>> before it is created
    lock,             \* the Mutex around it: holder (0 = free) and poison flag
    last_accept,      \* outcome of the latest accept: "none", "ok" or "err"
    pc,               \* per connection: where its handler thread is
    buf,              \* handle_connection's line buffer
    operation,        \* the parsed Operation a handler is about to apply
    response,         \* the Protocol message a handler is about to send
    error,            \* the ServerError a handler returned ("" = none)
    reqs,             \* history: the lines each handler has read
    parsed,           \* history: what Operation::from_str returned for each
    out,              \* history: the byte strings each handler has written
    log,              \* history: the accesses to the calculator, in order
    message,          \* codec: the Protocol message being encoded
    encoded,          \* codec: <<to_bytes(message)>> once encoded
    decoded           \* codec: <<from_bytes(bytes)>> once decoded

\* The variables of the codec exercise; the server leaves them alone.
codec == <<message, encoded, decoded>>

VARIABLES
    file,             \* client: the lines of its input file
    cl_pc,            \* client: where process_files_with_stream is
    cl_sent,          \* client: lines written to the server so far
    cl_read,          \* client: response lines read from the server so far
    printed,          \* client: what it printed on stdout
    cl_error          \* client: the ClientError it returned ("" = none)

\* The variables of the client.
client == <<file, cl_pc, cl_sent, cl_read, printed, cl_error>>

VARIABLES
    channel,          \* logger: the events in the mpsc channel, oldest first
    disconnected,     \* logger: every Sender has been dropped
    logger_pc,        \* logger: where the thread of start_logger is
    log_file,         \* logger: the lines in the log file
    sent,             \* history: the events sent, in order
    io_failed         \* history: opening or writing the log file failed

\* The variables of the logger.
logger == <<channel, disconnected, logger_pc, log_file, sent, io_failed>>

vars == <<listener, calculator, lock, last_accept, pc, buf, operation,
          response, error, reqs, parsed, out, log, message, encoded, decoded,
          client, logger>>

\* The client before it runs.
InitClient ==
    /\ file = <<>>
    /\ cl_pc = "none"
    /\ cl_sent = 0
    /\ cl_read = 0
    /\ printed = <<>>
    /\ cl_error = ""

\* The logger before it is started.
InitLogger ==
    /\ channel = <<>>
    /\ disconnected = FALSE
    /\ logger_pc = "none"
    /\ log_file = <<>>
    /\ sent = <<>>
    /\ io_failed = FALSE

Init ==
    /\ listener = "init"
    /\ calculator = <<>>
    /\ lock = [holder |-> 0, poisoned |-> FALSE]
    /\ last_accept = "none"
    /\ pc = [c \in Conns |-> "none"]
    /\ buf = [c \in Conns |-> ""]
    /\ operation = [c \in Conns |-> NoOp]
    /\ response = [c \in Conns |-> Ok]
    /\ error = [c \in Conns |-> ""]
    /\ reqs = [c \in Conns |-> <<>>]
    /\ parsed = [c \in Conns |-> <<>>]
    /\ out = [c \in Conns |-> <<>>]
    /\ log = <<>>
    /\ message = Ok
    /\ encoded = <<>>
    /\ decoded = <<>>
    /\ InitClient
    /\ InitLogger

RECURSIVE SumLen(_, _)
SumLen(f, S) ==
    IF S = {} THEN 0
    ELSE LET c == CHOOSE c \in S : TRUE IN Len(f[c]) + SumLen(f, S \ {c})

\* Lines read so far by all handlers.
TotalReqs == SumLen(reqs, Conns)

\* ------------------------------------------------------------- run_server

\* TcpListener::bind succeeds; the calculator is created right after.
Bind ==
    /\ UNCHANGED <<codec, client, logger>>
    /\ listener = "init"
    /\ listener' = "listening"
    /\ calculator' = <<Calculator_new>>
    /\ UNCHANGED <<lock, last_accept, pc, buf, operation, response, error,
                   reqs, parsed, out, log>>

\* run_server creating the calculator before it binds.
BindFail_after_new ==
    /\ UNCHANGED <<codec, client, logger>>
    /\ listener = "init"
    /\ listener' = "bind_failed"
    /\ calculator' = <<Calculator_new>>
    /\ UNCHANGED <<lock, last_accept, pc, buf, operation,
                   response, error, reqs, parsed, out, log>>

\* TcpListener::bind fails: run_server returns BindFailed.
BindFail ==
    /\ UNCHANGED <<codec, client, logger>>
    /\ listener = "init"
    /\ listener' = "bind_failed"
    /\ UNCHANGED <<calculator, lock, last_accept, pc, buf, operation,
                   response, error, reqs, parsed, out, log>>

\* The accept loop joining each handler thread before the next accept.
Accept_join(c) ==
    /\ UNCHANGED <<codec, client, logger>>
    /\ listener = "listening"
    /\ pc[c] = "none"
    /\ \A d \in Conns : d < c => pc[d] \in {"closed", "fatal", "panicked"}
    /\ pc' = [pc EXCEPT ![c] = "read"]
    /\ last_accept' = "ok"
    /\ UNCHANGED <<listener, calculator, lock, buf, operation, response, error,
                   reqs, parsed, out, log>>

\* The accept loop creating a calculator of its own for each connection.
Accept_own_calculator(c) ==
    /\ UNCHANGED <<codec, client, logger>>
    /\ listener = "listening"
    /\ pc[c] = "none"
    /\ \A d \in Conns : d < c => pc[d] # "none"
    /\ pc' = [pc EXCEPT ![c] = "read"]
    /\ last_accept' = "ok"
    /\ calculator' = <<Calculator_new>>
    /\ UNCHANGED <<listener, lock, buf, operation, response, error,
                   reqs, parsed, out, log>>

\* listener.incoming() yields Ok(stream): one handler thread is spawned.
Accept(c) ==
    /\ UNCHANGED <<codec, client, logger>>
    /\ listener = "listening"
    /\ pc[c] = "none"
    /\ \A d \in Conns : d < c => pc[d] # "none"
    /\ pc' = [pc EXCEPT ![c] = "read"]
    /\ last_accept' = "ok"
    /\ UNCHANGED <<listener, calculator, lock, buf, operation, response, error,
                   reqs, parsed, out, log>>

\* The accept loop propagating the error of a failed accept: run_server
\* returns.
AcceptFail_return ==
    /\ UNCHANGED <<codec, client, logger>>
    /\ listener = "listening"
    /\ \E c \in Conns : pc[c] = "none"
    /\ last_accept' = "err"
    /\ listener' = "stopped"
    /\ UNCHANGED <<calculator, lock, pc, buf, operation, response,
                   error, reqs, parsed, out, log>>

\* listener.incoming() yields Err: reported, the loop continues. Failures
\* are produced while a connection is still to come.
AcceptFail ==
    /\ UNCHANGED <<codec, client, logger>>
    /\ listener = "listening"
    /\ \E c \in Conns : pc[c] = "none"
    /\ last_accept' = "err"
    /\ UNCHANGED <<listener, calculator, lock, pc, buf, operation, response,
                   error, reqs, parsed, out, log>>

\* ------------------------------------------------------ handle_connection

\* handle_operation_message up to the call of apply_operation: the parse,
\* and on a parse error the response to send.
handle_operation_message(args) ==
    LET op == Operation_from_str(args)
    IN  IF op.ok
        THEN [pc |-> "lock_apply", operation |-> op.op, response |-> Ok,
              parsed |-> op]
        ELSE [pc |-> "write", operation |-> NoOp,
              response |-> ErrorOperation(op.err), parsed |-> op]

\* dispatch answering any other kind with the decoded message itself.
dispatch_echo(line) ==
    LET protocol == from_bytes(trim_end(line))
    IN  CASE protocol.kind = "Operation" -> handle_operation_message(protocol.arg)
          [] protocol.kind = "Get" ->
               [pc |-> "lock_get", operation |-> NoOp, response |-> Ok,
                parsed |-> OpErr("")]
          [] OTHER ->
               [pc |-> "write", operation |-> NoOp, response |-> protocol,
                parsed |-> OpErr("")]

\* The decode and the match of handle_connection on the line just read.
dispatch(line) ==
    LET protocol == from_bytes(trim_end(line))
    IN  CASE protocol.kind = "Operation" -> handle_operation_message(protocol.arg)
          [] protocol.kind = "Get" ->
               [pc |-> "lock_get", operation |-> NoOp, response |-> Ok,
                parsed |-> OpErr("")]
          [] OTHER ->
               [pc |-> "write", operation |-> NoOp,
                response |->
                    ErrorOperation("unexpected message: " \o Display(protocol)),
                parsed |-> OpErr("")]

\* read_line returns Ok(n), n > 0: the line is decoded and dispatched.
ReadLine(c, line, budget) ==
    /\ UNCHANGED <<codec, client, logger>>
    /\ pc[c] = "read"
    /\ TotalReqs < budget
    /\ LET d == dispatch(line)
       IN  /\ pc' = [pc EXCEPT ![c] = d.pc]
           /\ operation' = [operation EXCEPT ![c] = d.operation]
           /\ response' = [response EXCEPT ![c] = d.response]
           /\ parsed' = [parsed EXCEPT ![c] = Append(@, d.parsed)]
    /\ buf' = [buf EXCEPT ![c] = line]
    /\ reqs' = [reqs EXCEPT ![c] = Append(@, line)]
    /\ UNCHANGED <<listener, calculator, lock, last_accept, error, out, log>>

\* The handler answering the end of the stream before it returns.
ReadEof_reply(c) ==
    /\ UNCHANGED <<codec, client, logger>>
    /\ pc[c] = "read"
    /\ pc' = [pc EXCEPT ![c] = "closed"]
    /\ out' = [out EXCEPT ![c] = Append(@, to_bytes(Ok))]
    /\ UNCHANGED <<listener, calculator, lock, last_accept, buf, operation,
                   response, error, reqs, parsed, log>>

\* The handler resetting the accumulator when its peer leaves.
ReadEof_reset(c) ==
    /\ UNCHANGED <<codec, client, logger>>
    /\ pc[c] = "read"
    /\ pc' = [pc EXCEPT ![c] = "closed"]
    /\ calculator' = <<Calculator_new>>
    /\ UNCHANGED <<listener, lock, last_accept, buf, operation,
                   response, error, reqs, parsed, out, log>>

\* read_line returns Ok(0): the peer closed, the handler returns Ok(()).
ReadEof(c) ==
    /\ UNCHANGED <<codec, client, logger>>
    /\ pc[c] = "read"
    /\ pc' = [pc EXCEPT ![c] = "closed"]
    /\ UNCHANGED <<listener, calculator, lock, last_accept, buf, operation,
                   response, error, reqs, parsed, out, log>>

\* read_line returns Err: the handler returns ReadFailed.
ReadFail(c) ==
    /\ UNCHANGED <<codec, client, logger>>
    /\ pc[c] = "read"
    /\ pc' = [pc EXCEPT ![c] = "fatal"]
    /\ error' = [error EXCEPT ![c] = "ReadFailed"]
    /\ UNCHANGED <<listener, calculator, lock, last_accept, buf, operation,
                   response, reqs, parsed, out, log>>

\* read_line returns Err(InvalidData): the bytes up to the newline are not
\* UTF-8; they are consumed, buf keeps its cleared contents, and the handler
\* returns Err(ReadFailed) as for any other read error.
ReadInvalidUtf8(c, line, budget) ==
    /\ UNCHANGED <<codec, client, logger>>
    /\ pc[c] = "read"
    /\ TotalReqs < budget
    /\ ~is_utf8(line)
    /\ pc' = [pc EXCEPT ![c] = "fatal"]
    /\ error' = [error EXCEPT ![c] = "ReadFailed"]
    /\ buf' = [buf EXCEPT ![c] = ""]
    /\ reqs' = [reqs EXCEPT ![c] = Append(@, line)]
    /\ parsed' = [parsed EXCEPT ![c] = Append(@, OpErr(""))]
    /\ UNCHANGED <<listener, calculator, lock, last_accept, operation,
                   response, out, log>>

\* calculator.lock() that does not wait for the holder (no exclusion).
MutexLock_no_wait(c) ==
    /\ UNCHANGED <<codec, client, logger>>
    /\ pc[c] \in {"lock_apply", "lock_get"}
    /\ IF lock.poisoned
       THEN /\ pc' = [pc EXCEPT ![c] = "fatal"]
            /\ error' = [error EXCEPT ![c] = "PoisonError"]
            /\ UNCHANGED lock
       ELSE /\ pc' = [pc EXCEPT ![c] = IF pc[c] = "lock_apply" THEN "apply" ELSE "get"]
            /\ lock' = [lock EXCEPT !.holder = c]
            /\ UNCHANGED error
    /\ UNCHANGED <<listener, calculator, last_accept, buf, operation,
                   response, reqs, parsed, out, log>>

\* calculator.lock() recovering the guard of a poisoned mutex (into_inner).
MutexLock_into_inner(c) ==
    /\ UNCHANGED <<codec, client, logger>>
    /\ pc[c] \in {"lock_apply", "lock_get"}
    /\ lock.holder = 0
    /\ pc' = [pc EXCEPT ![c] = IF pc[c] = "lock_apply" THEN "apply" ELSE "get"]
    /\ lock' = [lock EXCEPT !.holder = c]
    /\ UNCHANGED <<listener, calculator, last_accept, buf, operation,
                   response, error, reqs, parsed, out, log>>

\* calculator.lock() in apply_operation and in get_value: blocks while the
\* mutex is held, fails with PoisonError once it is poisoned.
MutexLock(c) ==
    /\ UNCHANGED <<codec, client, logger>>
    /\ pc[c] \in {"lock_apply", "lock_get"}
    /\ lock.holder = 0
    /\ IF lock.poisoned
       THEN /\ pc' = [pc EXCEPT ![c] = "fatal"]
            /\ error' = [error EXCEPT ![c] = "PoisonError"]
            /\ UNCHANGED lock
       ELSE /\ pc' = [pc EXCEPT ![c] = IF pc[c] = "lock_apply" THEN "apply" ELSE "get"]
            /\ lock' = [lock EXCEPT !.holder = c]
            /\ UNCHANGED error
    /\ UNCHANGED <<listener, calculator, last_accept, buf, operation,
                   response, reqs, parsed, out, log>>

\* apply_operation taking and dropping the guard without applying.
apply_operation_skip(c) ==
    /\ UNCHANGED <<codec, client, logger>>
    /\ pc[c] = "apply"
    /\ lock.holder = c
    /\ lock' = [lock EXCEPT !.holder = 0]
    /\ pc' = [pc EXCEPT ![c] = "write"]
    /\ response' = [response EXCEPT ![c] = Ok]
    /\ UNCHANGED <<listener, calculator, last_accept, buf, operation, error,
                   reqs, parsed, out, log>>

\* apply_operation never dropping its guard (mem::forget).
apply_operation_keep_guard(c) ==
    /\ UNCHANGED <<codec, client, logger>>
    /\ pc[c] = "apply"
    /\ lock.holder = c
    /\ LET r == apply(calculator[1], operation[c])
       IN  /\ ~r.panic
           /\ calculator' = <<r.calc>>
    /\ pc' = [pc EXCEPT ![c] = "write"]
    /\ response' = [response EXCEPT ![c] = Ok]
    /\ log' = Append(log, [kind |-> "apply", conn |-> c, req |-> Len(reqs[c])])
    /\ UNCHANGED <<listener, lock, last_accept, buf, operation, error, reqs,
                   parsed, out>>

\* apply_operation applying the operation twice under one guard.
apply_operation_twice(c) ==
    /\ UNCHANGED <<codec, client, logger>>
    /\ pc[c] = "apply"
    /\ lock.holder = c
    /\ LET r == apply(calculator[1], operation[c])
           r2 == apply(r.calc, operation[c])
       IN  /\ ~r.panic
           /\ calculator' = <<r2.calc>>
    /\ lock' = [lock EXCEPT !.holder = 0]
    /\ pc' = [pc EXCEPT ![c] = "write"]
    /\ response' = [response EXCEPT ![c] = Ok]
    /\ log' = Append(log, [kind |-> "apply", conn |-> c, req |-> Len(reqs[c])])
    /\ UNCHANGED <<listener, last_accept, buf, operation, error, reqs, parsed, out>>

\* apply_operation with the guard held: calc.apply(operation), then the guard
\* is dropped. A panic inside apply poisons the mutex and ends the thread.
apply_operation(c) ==
    /\ UNCHANGED <<codec, client, logger>>
    /\ pc[c] = "apply"
    /\ lock.holder = c
    /\ LET r == apply(calculator[1], operation[c])
       IN  IF r.panic
           THEN /\ lock' = [holder |-> 0, poisoned |-> TRUE]
                /\ pc' = [pc EXCEPT ![c] = "panicked"]
                /\ UNCHANGED <<calculator, response, log>>
           ELSE /\ calculator' = <<r.calc>>
                /\ lock' = [lock EXCEPT !.holder = 0]
                /\ pc' = [pc EXCEPT ![c] = "write"]
                /\ response' = [response EXCEPT ![c] = Ok]
                /\ log' = Append(log, [kind |-> "apply", conn |-> c,
                                       req |-> Len(reqs[c])])
    /\ UNCHANGED <<listener, last_accept, buf, operation, error, reqs, parsed, out>>

\* get_value taking the accumulation out of the calculator (std::mem::take).
get_value_take(c) ==
    /\ UNCHANGED <<codec, client, logger>>
    /\ pc[c] = "get"
    /\ lock.holder = c
    /\ LET value == accumulation(calculator[1])
       IN  response' = [response EXCEPT ![c] = Value(u8_to_string(value))]
    /\ calculator' = <<Calculator_new>>
    /\ lock' = [lock EXCEPT !.holder = 0]
    /\ pc' = [pc EXCEPT ![c] = "write"]
    /\ log' = Append(log, [kind |-> "read", conn |-> c, req |-> Len(reqs[c])])
    /\ UNCHANGED <<listener, last_accept, buf, operation, error, reqs, parsed, out>>

\* get_value returning with the guard still held.
get_value_keep_guard(c) ==
    /\ UNCHANGED <<codec, client, logger>>
    /\ pc[c] = "get"
    /\ lock.holder = c
    /\ LET value == accumulation(calculator[1])
       IN  response' = [response EXCEPT ![c] = Value(u8_to_string(value))]
    /\ pc' = [pc EXCEPT ![c] = "write"]
    /\ log' = Append(log, [kind |-> "read", conn |-> c, req |-> Len(reqs[c])])
    /\ UNCHANGED <<listener, calculator, lock, last_accept, buf, operation,
                   error, reqs, parsed, out>>

\* get_value with the guard held, and handle_get_message's response.
get_value(c) ==
    /\ UNCHANGED <<codec, client, logger>>
    /\ pc[c] = "get"
    /\ lock.holder = c
    /\ LET value == accumulation(calculator[1])
       IN  response' = [response EXCEPT ![c] = Value(u8_to_string(value))]
    /\ lock' = [lock EXCEPT !.holder = 0]
    /\ pc' = [pc EXCEPT ![c] = "write"]
    /\ log' = Append(log, [kind |-> "read", conn |-> c, req |-> Len(reqs[c])])
    /\ UNCHANGED <<listener, calculator, last_accept, buf, operation, error,
                   reqs, parsed, out>>

\* send_protocol leaving the response in a buffer that is never flushed.
send_protocol_unflushed(c) ==
    /\ UNCHANGED <<codec, client, logger>>
    /\ pc[c] = "write"
    /\ pc' = [pc EXCEPT ![c] = "read"]
    /\ UNCHANGED <<listener, calculator, lock, last_accept, buf, operation,
                   response, error, reqs, parsed, out, log>>

\* send_protocol: write_all succeeds, the handler loops back to read_line.
send_protocol(c) ==
    /\ UNCHANGED <<codec, client, logger>>
    /\ pc[c] = "write"
    /\ out' = [out EXCEPT ![c] = Append(@, to_bytes(response[c]))]
    /\ pc' = [pc EXCEPT ![c] = "read"]
    /\ UNCHANGED <<listener, calculator, lock, last_accept, buf, operation,
                   response, error, reqs, parsed, log>>

\* send_protocol unwrapping the write's result: the thread panics and the
\* mutex is left poisoned.
WriteFail_poison(c) ==
    /\ UNCHANGED <<codec, client, logger>>
    /\ pc[c] = "write"
    /\ pc' = [pc EXCEPT ![c] = "fatal"]
    /\ error' = [error EXCEPT ![c] = "WriteFailed"]
    /\ lock' = [lock EXCEPT !.poisoned = TRUE]
    /\ UNCHANGED <<listener, calculator, last_accept, buf, operation,
                   response, reqs, parsed, out, log>>

\* send_protocol: write_all fails, the handler returns WriteFailed.
WriteFail(c) ==
    /\ UNCHANGED <<codec, client, logger>>
    /\ pc[c] = "write"
    /\ pc' = [pc EXCEPT ![c] = "fatal"]
    /\ error' = [error EXCEPT ![c] = "WriteFailed"]
    /\ UNCHANGED <<listener, calculator, lock, last_accept, buf, operation,
                   response, reqs, parsed, out, log>>

\* ----------------------------------------------------------- environments

\* Lines the peers send in the concurrent specification.
ConcLines == {"OP - 2\n", "OP * 3\n", "GET\n"}

\* Lines the peer sends in the wire specification.
WireLines ==
    {"OP + 1\n", "OP - 2\n", "OP * 3\n", "OP / 2\n", "GET\n",
     "OPERATION + 1\n", "OPERATION / 0\n", "OPERATION % 5\n",
     "OPERATION + 300\n", "OPERATION + cinco\n",
     "hola\n", "hola  mundo\n", "OK\n", "VALUE 1\n", "ERROR x\n"}

Handler(c, lines, budget) ==
    \/ \E line \in lines : ReadLine(c, line, budget)
    \/ ReadEof(c)
    \/ ReadFail(c)
    \/ MutexLock(c)
    \/ apply_operation(c)
    \/ get_value(c)
    \/ send_protocol(c)
    \/ WriteFail(c)

\* Several connections served concurrently.
Next ==
    \/ Bind
    \/ BindFail
    \/ AcceptFail
    \/ \E c \in Conns : Accept(c)
    \/ \E c \in Conns : Handler(c, ConcLines, MaxReq)

Spec == Init /\ [][Next]_vars

\* One connection, the full range of request lines.
NextWire ==
    \/ Bind
    \/ BindFail
    \/ AcceptFail
    \/ Accept(1)
    \/ Handler(1, WireLines, MaxWireReq)

SpecWire == Init /\ [][NextWire]_vars

\* ---------------------------------------------------------------- poisoning

\* A thread other than the handlers calls apply_operation on the shared
\* calculator with Operation::Div(0), which only Operation::from_str filters
\* out: wrapping_div panics with the guard held and the mutex is poisoned.
apply_operation_div_zero ==
    /\ UNCHANGED <<codec, client, logger>>
    /\ calculator # <<>>
    /\ lock.holder = 0
    /\ ~lock.poisoned
    /\ apply(calculator[1], Div(0)).panic
    /\ lock' = [holder |-> 0, poisoned |-> TRUE]
    /\ UNCHANGED <<listener, calculator, last_accept, pc, buf, operation,
                   response, error, reqs, parsed, out, log>>

\* Lines the peers send in the poisoning specification.
PoisonLines == {"OP - 2\n", "GET\n"}

\* Several connections served while a holder of the lock may panic.
NextPoison ==
    \/ Bind
    \/ \E c \in Conns : Accept(c)
    \/ \E c \in Conns : Handler(c, PoisonLines, MaxReq)
    \/ apply_operation_div_zero

SpecPoison == Init /\ [][NextPoison]_vars

\* ------------------------------------------------------------------ arity

\* Lines the peer sends in the arity specification: OP with no, one, two
\* and three arguments, with single and with repeated whitespace, and GET.
ArityLines ==
    {"OP\n", "OP +\n", "OP + 1\n", "OP  + \t1\n", "OP + 1 2\n", "GET\n"}

\* One connection whose peer sends operations of every arity.
NextArity ==
    \/ Bind
    \/ Accept(1)
    \/ Handler(1, ArityLines, MaxArityReq)

SpecArity == Init /\ [][NextArity]_vars

\* ----------------------------------------------------------------- parser

\* Operators and operands of the operations sent in the parser
\* specification: the four operators and an unknown one, with a zero, a
\* non-zero and an invalid operand; and a GET to read the result.
ParseOperators == {"+", "-", "*", "/", "%"}
ParseOperands == {"0", "2", "abc"}
ParseLines ==
    {"OP " \o operator \o " " \o operand \o "\n" :
        operator \in ParseOperators, operand \in ParseOperands}
        \cup {"GET\n"}

\* One connection whose peer sends operations of every shape.
NextParse ==
    \/ Bind
    \/ Accept(1)
    \/ Handler(1, ParseLines, MaxParseReq)

SpecParse == Init /\ [][NextParse]_vars

\* ------------------------------------------------------------- life cycle

\* Lines the peers send in the life-cycle specification: an operation, an
\* operation the parser rejects, GET, a line with no keyword, a response
\* kind, and a line whose bytes are not UTF-8.
LifeLines == {"OP - 2\n", "OP / 0\n", "GET\n", "hola\n", "OK\n"}
InvalidUtf8Lines == {Byte0xFF \o "\n"}

\* Several connections served, with every way a handler can end.
NextLife ==
    \/ Bind
    \/ \E c \in Conns : Accept(c)
    \/ \E c \in Conns : Handler(c, LifeLines, MaxLifeReq)
    \/ \E c \in Conns : \E line \in InvalidUtf8Lines :
          ReadInvalidUtf8(c, line, MaxLifeReq)
    \/ apply_operation_div_zero

SpecLife == Init /\ [][NextLife]_vars

\* --------------------------------------------------------------- fairness

\* Lines the peers send in the fair specification.
FairLines == {"OP - 2\n", "GET\n"}

\* What a handler thread does on its own once it has a line: take the lock,
\* apply or read, write the response. Reading waits for the peer.
HandlerRuns(c) ==
    \/ MutexLock(c)
    \/ apply_operation(c)
    \/ get_value(c)
    \/ send_protocol(c)
    \/ WriteFail(c)

NextFair ==
    \/ Bind
    \/ \E c \in Conns : Accept(c)
    \/ \E c \in Conns : Handler(c, FairLines, MaxFairReq)

\* The threads are scheduled fairly; the peers may stall for ever: there is
\* no fairness on the accepts nor on the reads.
SpecFair ==
    Init /\ [][NextFair]_vars /\ \A c \in Conns : WF_vars(HandlerRuns(c))

\* ------------------------------------------------------------------ codec

\* The variables of the server; the codec exercise leaves them alone.
server == <<listener, calculator, lock, last_accept, pc, buf, operation,
            response, error, reqs, parsed, out, log>>

\* Payloads of the messages the programs build: operations as the operation
\* parser accepts them, the error texts the handler sends, u8 values.
OperationPayloads ==
    {o \o " " \o n : o \in {"+", "-", "*", "/"},
                     n \in {"0", "1", "2", "10", "200", "255"}}

ErrorPayloads ==
    {"division by zero", "expected 2 arguments",
     "parsing error: unknown operation: %",
     "parsing error: invalid integer: " \o InvalidDigitErr,
     "parsing error: invalid integer: " \o PosOverflowErr,
     "unexpected message: hola", "unexpected message: hola mundo"}

ValuePayloads == {u8_to_string(v) : v \in {0, 1, 9, 10, 255}}

\* The messages of every variant but SynthaxError.
Messages ==
    {Operation(a) : a \in OperationPayloads} \cup {Get, Ok}
        \cup {ErrorOperation(e) : e \in ErrorPayloads}
        \cup {Value(v) : v \in ValuePayloads}

InitCodec ==
    /\ listener = "init"
    /\ calculator = <<>>
    /\ lock = [holder |-> 0, poisoned |-> FALSE]
    /\ last_accept = "none"
    /\ pc = [c \in Conns |-> "none"]
    /\ buf = [c \in Conns |-> ""]
    /\ operation = [c \in Conns |-> NoOp]
    /\ response = [c \in Conns |-> Ok]
    /\ error = [c \in Conns |-> ""]
    /\ reqs = [c \in Conns |-> <<>>]
    /\ parsed = [c \in Conns |-> <<>>]
    /\ out = [c \in Conns |-> <<>>]
    /\ log = <<>>
    /\ message \in Messages
    /\ encoded = <<>>
    /\ decoded = <<>>
    /\ InitClient
    /\ InitLogger

\* The sender serialises the message: Protocol::to_bytes.
Encode ==
    /\ UNCHANGED <<client, logger>>
    /\ encoded = <<>>
    /\ encoded' = <<to_bytes(message)>>
    /\ UNCHANGED <<message, decoded>>
    /\ UNCHANGED server

\* The receiver decodes the line it read: Protocol::from_bytes.
Decode ==
    /\ UNCHANGED <<client, logger>>
    /\ encoded # <<>>
    /\ decoded = <<>>
    /\ decoded' = <<from_bytes(encoded[1])>>
    /\ UNCHANGED <<message, encoded>>
    /\ UNCHANGED server

NextCodec ==
    \/ Encode
    \/ Decode

SpecCodec == InitCodec /\ [][NextCodec]_vars

\* ----------------------------------------------------------------- client

\* The server before run_server starts.
InitServer ==
    /\ listener = "init"
    /\ calculator = <<>>
    /\ lock = [holder |-> 0, poisoned |-> FALSE]
    /\ last_accept = "none"
    /\ pc = [c \in Conns |-> "none"]
    /\ buf = [c \in Conns |-> ""]
    /\ operation = [c \in Conns |-> NoOp]
    /\ response = [c \in Conns |-> Ok]
    /\ error = [c \in Conns |-> ""]
    /\ reqs = [c \in Conns |-> <<>>]
    /\ parsed = [c \in Conns |-> <<>>]
    /\ out = [c \in Conns |-> <<>>]
    /\ log = <<>>

\* Lines of the client's input file.
ClientLines == {"OP - 2\n", "GET\n", "hola\n", "OK\n"}

Files == UNION {[1..n -> ClientLines] : n \in 0..MaxFile}

\* The bytes of a sequence of writes, in order.
RECURSIVE Concat(_)
Concat(writes) ==
    IF writes = <<>> THEN "" ELSE Head(writes) \o Concat(Tail(writes))

RECURSIVE LinesFrom(_, _, _, _)
LinesFrom(s, i, cur, acc) ==
    IF i > Len(s) THEN acc
    ELSE IF CharAt(s, i) = "\n"
         THEN LinesFrom(s, i + 1, "", Append(acc, cur \o "\n"))
         ELSE LinesFrom(s, i + 1, cur \o CharAt(s, i), acc)

\* What successive BufRead::read_line calls return on a byte stream: the
\* lines up to and including each newline.
read_lines(bytes) == LinesFrom(bytes, 1, "", <<>>)

\* The response lines the client can read: the server's writes on its
\* connection, cut at the newlines.
ServerStream == read_lines(Concat(out[1]))

\* The k-th line the client writes: its file's lines, then the GET.
ClientLine(k) == IF k <= Len(file) THEN file[k] ELSE to_bytes(Get)

InitClientSpec ==
    /\ InitServer
    /\ message = Ok
    /\ encoded = <<>>
    /\ decoded = <<>>
    /\ InitLogger
    /\ file \in Files
    /\ cl_pc = "none"
    /\ cl_sent = 0
    /\ cl_read = 0
    /\ printed = <<>>
    /\ cl_error = ""

\* process_files: TcpStream::connect succeeds once the server listens.
ClientConnect ==
    /\ cl_pc = "none"
    /\ listener = "listening"
    /\ cl_pc' = "send"
    /\ UNCHANGED <<file, cl_sent, cl_read, printed, cl_error>>
    /\ UNCHANGED <<server, codec, logger>>

\* process_files: TcpStream::connect fails, FailedConnection.
ClientConnectFail ==
    /\ cl_pc = "none"
    /\ listener = "bind_failed"
    /\ cl_pc' = "failed"
    /\ cl_error' = "FailedConnection"
    /\ UNCHANGED <<file, cl_sent, cl_read, printed>>
    /\ UNCHANGED <<server, codec, logger>>

\* write_to_addr of the next line of the file, or of the GET once the file
\* is exhausted.
write_to_addr ==
    /\ cl_pc = "send"
    /\ cl_sent' = cl_sent + 1
    /\ cl_pc' = IF cl_sent < Len(file) THEN "await" ELSE "await_value"
    /\ UNCHANGED <<file, cl_read, printed, cl_error>>
    /\ UNCHANGED <<server, codec, logger>>

\* write_to_addr fails once the server's handler is gone: FailedWrite.
ClientWriteFail ==
    /\ cl_pc = "send"
    /\ pc[1] \in {"closed", "fatal"}
    /\ cl_pc' = "failed"
    /\ cl_error' = "FailedWrite"
    /\ UNCHANGED <<file, cl_sent, cl_read, printed>>
    /\ UNCHANGED <<server, codec, logger>>

\* receive_response: one read_line; an ERROR is printed on stderr.
receive_response ==
    /\ cl_pc = "await"
    /\ cl_read < Len(ServerStream)
    /\ cl_read' = cl_read + 1
    /\ cl_pc' = "send"
    /\ UNCHANGED <<file, cl_sent, printed, cl_error>>
    /\ UNCHANGED <<server, codec, logger>>

\* last_value_of_calculator: one read_line; a VALUE is printed on stdout,
\* an ERROR on stderr, anything else is ErrorMessage.
last_value_of_calculator ==
    /\ cl_pc = "await_value"
    /\ cl_read < Len(ServerStream)
    /\ cl_read' = cl_read + 1
    /\ LET protocol == from_bytes(trim_end(ServerStream[cl_read + 1]))
       IN  CASE protocol.kind = "Value" ->
                  /\ printed' = Append(printed, protocol.arg)
                  /\ cl_pc' = "done"
                  /\ UNCHANGED cl_error
             [] protocol.kind = "ErrorOperation" ->
                  /\ cl_pc' = "done"
                  /\ UNCHANGED <<printed, cl_error>>
             [] OTHER ->
                  /\ cl_pc' = "failed"
                  /\ cl_error' = "ErrorMessage"
                  /\ UNCHANGED printed
    /\ UNCHANGED <<file, cl_sent>>
    /\ UNCHANGED <<server, codec, logger>>

\* read_line returns Ok(0) in either of the two: the server closed the
\* connection, FailedConnection.
ClientReadEof ==
    /\ cl_pc \in {"await", "await_value"}
    /\ cl_read = Len(ServerStream)
    /\ pc[1] \in {"closed", "fatal"}
    /\ cl_pc' = "failed"
    /\ cl_error' = "FailedConnection"
    /\ UNCHANGED <<file, cl_sent, cl_read, printed>>
    /\ UNCHANGED <<server, codec, logger>>

\* The handler reads the next line the client wrote.
ServerReadLine ==
    /\ Len(reqs[1]) < cl_sent
    /\ ReadLine(1, ClientLine(Len(reqs[1]) + 1), MaxFile + 1)

\* The handler reads the end of the stream once the client is gone.
ServerReadEof ==
    /\ cl_pc \in {"done", "failed"}
    /\ Len(reqs[1]) = cl_sent
    /\ ReadEof(1)

\* One client replaying its file against the server.
NextClient ==
    \/ Bind
    \/ BindFail
    \/ Accept(1)
    \/ ClientConnect
    \/ ClientConnectFail
    \/ write_to_addr
    \/ ClientWriteFail
    \/ receive_response
    \/ last_value_of_calculator
    \/ ClientReadEof
    \/ ServerReadLine
    \/ ServerReadEof
    \/ ReadFail(1)
    \/ MutexLock(1)
    \/ apply_operation(1)
    \/ get_value(1)
    \/ send_protocol(1)
    \/ WriteFail(1)

SpecClient == InitClientSpec /\ [][NextClient]_vars

\* ------------------------------------------------------- client, by bytes

\* Lines of the input file as file_reader.read_line returns them: with
\* their newline, an empty line included; the last line of a file may have
\* none.
TalkLines == {"OP - 2\n", "hola\n", "\n"}
UnterminatedLines == {"OP - 2", "GET"}

TalkFiles ==
    UNION {[1..n -> TalkLines] : n \in 0..MaxFile}
        \cup {Append(f, last) :
                f \in UNION {[1..n -> TalkLines] : n \in 0..(MaxFile - 1)},
                last \in UnterminatedLines}

\* The bytes the client has written on the connection.
ClientWritten == Concat([k \in 1..cl_sent |-> ClientLine(k)])

\* Those of them the handler's read_line calls have not returned yet.
Unread ==
    SubSeq(ClientWritten, Len(Concat(reqs[1])) + 1, Len(ClientWritten))

\* The client has returned: its stream is dropped, the handler sees the end.
ClientGone == cl_pc \in {"done", "failed"}

\* reader.read_line in the handler: it returns once the unread bytes hold a
\* newline, with the bytes up to it, or at the end of the stream with
\* whatever bytes are left; otherwise it keeps waiting.
ServerReadBytes ==
    LET lines == read_lines(Unread)
        line == IF lines # <<>> THEN lines[1] ELSE Unread
    IN  /\ lines # <<>> \/ (Unread # "" /\ ClientGone)
        /\ ReadLine(1, line, MaxFile + 2)

InitTalk ==
    /\ InitServer
    /\ message = Ok
    /\ encoded = <<>>
    /\ decoded = <<>>
    /\ InitLogger
    /\ file \in TalkFiles
    /\ cl_pc = "none"
    /\ cl_sent = 0
    /\ cl_read = 0
    /\ printed = <<>>
    /\ cl_error = ""

\* One client replaying its file, the handler reading the bytes it wrote.
NextTalk ==
    \/ Bind
    \/ BindFail
    \/ Accept(1)
    \/ ClientConnect
    \/ ClientConnectFail
    \/ write_to_addr
    \/ ClientWriteFail
    \/ receive_response
    \/ last_value_of_calculator
    \/ ClientReadEof
    \/ ServerReadBytes
    \/ ServerReadEof
    \/ ReadFail(1)
    \/ MutexLock(1)
    \/ apply_operation(1)
    \/ get_value(1)
    \/ send_protocol(1)
    \/ WriteFail(1)

SpecTalk == InitTalk /\ [][NextTalk]_vars

\* ---------------------------------------------------------------- decoder

\* Tokens of the lines handed to Protocol::from_bytes: the keywords of the
\* match in Protocol::from_str, the keyword of the specification, a word
\* that is no keyword and a number.
DecodeTokens == {"OP", "GET", "OK", "ERROR", "VALUE", "OPERATION", "hola", "1"}

TokenSeqs == UNION {[1..n -> DecodeTokens] : n \in 0..MaxTokens}

\* The bytes received: the tokens separated by one or by two blanks and a
\* newline, or bytes that are not UTF-8.
DecodeInputs ==
    {join(t, sep) \o "\n" : t \in TokenSeqs, sep \in {" ", "  "}}
        \cup {Byte0xFF \o "\n", "GET " \o Byte0xFF \o "\n"}

InitDecode ==
    /\ InitServer
    /\ message = Ok
    /\ encoded \in {<<bytes>> : bytes \in DecodeInputs}
    /\ decoded = <<>>
    /\ InitClient
    /\ InitLogger

NextDecode == Decode

SpecDecode == InitDecode /\ [][NextDecode]_vars

\* ----------------------------------------------------------------- logger

\* LogEvent
Info(msg) == [kind |-> "Info", msg |-> msg]
Error(msg) == [kind |-> "Error", msg |-> msg]
CloseConnection == [kind |-> "CloseConnection", msg |-> ""]

\* The events the senders send.
LogEvents == {Info("Test info"), Error("Test error"), CloseConnection}

\* The Debug text of SystemTime::now(), which the model does not read.
Timestamp == "SystemTime"

\* The line start_logger formats for an Info or an Error event.
log_line(event) ==
    IF event.kind = "Info"
    THEN "[" \o Timestamp \o "] INFO: " \o event.msg \o "\n"
    ELSE "[" \o Timestamp \o "] ERROR: " \o event.msg \o "\n"

InitLoggerSpec ==
    /\ InitServer
    /\ message = Ok
    /\ encoded = <<>>
    /\ decoded = <<>>
    /\ InitClient
    /\ InitLogger

\* start_logger: the thread is spawned and the JoinHandle returned.
start_logger ==
    /\ logger_pc = "none"
    /\ logger_pc' = "opening"
    /\ UNCHANGED <<channel, disconnected, log_file, sent, io_failed>>
    /\ UNCHANGED <<server, codec, client>>

\* The thread truncates the log file and opens it for appending.
OpenLog ==
    /\ logger_pc = "opening"
    /\ logger_pc' = "receiving"
    /\ log_file' = <<>>
    /\ UNCHANGED <<channel, disconnected, sent, io_failed>>
    /\ UNCHANGED <<server, codec, client>>

\* One of the two opens fails: the thread reports it and returns, dropping
\* the Receiver.
OpenLogFail ==
    /\ logger_pc = "opening"
    /\ logger_pc' = "returned"
    /\ io_failed' = TRUE
    /\ UNCHANGED <<channel, disconnected, log_file, sent>>
    /\ UNCHANGED <<server, codec, client>>

\* sender.send(event) while the Receiver exists; the channel is unbounded.
Send(event) ==
    /\ ~disconnected
    /\ logger_pc # "returned"
    /\ Len(sent) < MaxEvents
    /\ channel' = Append(channel, event)
    /\ sent' = Append(sent, event)
    /\ UNCHANGED <<disconnected, logger_pc, log_file, io_failed>>
    /\ UNCHANGED <<server, codec, client>>

\* The last Sender is dropped.
DropSenders ==
    /\ ~disconnected
    /\ disconnected' = TRUE
    /\ UNCHANGED <<channel, logger_pc, log_file, sent, io_failed>>
    /\ UNCHANGED <<server, codec, client>>

\* The loop going on after CloseConnection instead of breaking.
LoggerReceive_no_break ==
    /\ logger_pc = "receiving"
    /\ channel # <<>>
    /\ channel' = Tail(channel)
    /\ IF Head(channel).kind = "CloseConnection"
       THEN UNCHANGED log_file
       ELSE log_file' = Append(log_file, log_line(Head(channel)))
    /\ UNCHANGED <<disconnected, logger_pc, sent, io_failed>>
    /\ UNCHANGED <<server, codec, client>>

\* One iteration of `for event in reciever`: an Info or Error line is
\* appended to the file, CloseConnection breaks out of the loop.
LoggerReceive ==
    /\ logger_pc = "receiving"
    /\ channel # <<>>
    /\ channel' = Tail(channel)
    /\ IF Head(channel).kind = "CloseConnection"
       THEN /\ logger_pc' = "returned"
            /\ UNCHANGED log_file
       ELSE /\ log_file' = Append(log_file, log_line(Head(channel)))
            /\ UNCHANGED logger_pc
    /\ UNCHANGED <<disconnected, sent, io_failed>>
    /\ UNCHANGED <<server, codec, client>>

\* One iteration whose write_all fails: the result is discarded (let _ =),
\* the event is lost.
LoggerWriteFail ==
    /\ logger_pc = "receiving"
    /\ channel # <<>>
    /\ Head(channel).kind # "CloseConnection"
    /\ channel' = Tail(channel)
    /\ io_failed' = TRUE
    /\ UNCHANGED <<disconnected, logger_pc, log_file, sent>>
    /\ UNCHANGED <<server, codec, client>>

\* The iterator ends: the channel is empty and every Sender is gone.
LoggerDisconnected ==
    /\ logger_pc = "receiving"
    /\ channel = <<>>
    /\ disconnected
    /\ logger_pc' = "returned"
    /\ UNCHANGED <<channel, disconnected, log_file, sent, io_failed>>
    /\ UNCHANGED <<server, codec, client>>

\* The steps of the logger's thread.
LoggerThread ==
    \/ OpenLog
    \/ OpenLogFail
    \/ LoggerReceive
    \/ LoggerWriteFail
    \/ LoggerDisconnected

NextLogger ==
    \/ start_logger
    \/ \E event \in LogEvents : Send(event)
    \/ DropSenders
    \/ OpenLog
    \/ OpenLogFail
    \/ LoggerReceive
    \/ LoggerWriteFail
    \/ LoggerDisconnected

\* The logger with its senders; the thread, once spawned, keeps running.
SpecLogger == InitLoggerSpec /\ [][NextLogger]_vars /\ WF_vars(LoggerThread)

\* ------------------------------------------------------------ properties

\* The text s contains the text t.
Contains(s, t) ==
    \E i \in 1..(Len(s) - Len(t) + 1) : SubSeq(s, i, i + Len(t) - 1) = t

\* Request k of connection c has been answered (one write per request).
Answered(c, k) == k <= Len(reqs[c]) /\ k <= Len(out[c])

\* Request k of connection c has been applied to the calculator.
Applied(c, k) ==
    \E i \in DOMAIN log : log[i] = [kind |-> "apply", conn |-> c, req |-> k]

\* No handler is between reading a line and answering it.
Idle == \A c \in Conns : pc[c] \in {"none", "read", "closed", "fatal"}

\* The arithmetic of the specification: add, sub and mul modulo 256,
\* truncating division.
ArithRef(r, o) ==
    CASE o.op = "Add" -> (r + o.n) % 256
      [] o.op = "Sub" -> (r - o.n) % 256
      [] o.op = "Mul" -> (r * o.n) % 256
      [] o.op = "Div" -> r \div o.n

\* The accesses of the log that applied an operation, in the order in which
\* the lock was taken.
Applies == SelectSeq(log, LAMBDA e : e.kind = "apply")

\* The result of applying, from 0, the operations parsed for the first n
\* requests of the sequence a, in that order.
RECURSIVE FoldApplies(_, _)
FoldApplies(a, n) ==
    IF n = 0 THEN 0
    ELSE ArithRef(FoldApplies(a, n - 1), parsed[a[n].conn][a[n].req].op)

\* C1: once every handler is idle, the accumulator is the result of applying
\* exactly the successfully parsed operations of all connections, each once,
\* in some total order starting from 0: the order in which the handlers took
\* the lock.
C1_Serialized ==
    (calculator # <<>> /\ Idle) =>
        LET a == Applies
        IN  /\ \A c \in Conns : \A k \in 1..Len(parsed[c]) :
                 parsed[c][k].ok =>
                    Cardinality({i \in DOMAIN a :
                                    a[i].conn = c /\ a[i].req = k}) = 1
            /\ \A i \in DOMAIN a : parsed[a[i].conn][a[i].req].ok
            /\ calculator[1].accumulation = FoldApplies(a, Len(a))

\* C1 witness: all handlers idle after two connections each had an operation
\* applied.
C1_Witness ==
    /\ Idle
    /\ \E i, j \in DOMAIN log :
          /\ log[i].kind = "apply" /\ log[j].kind = "apply"
          /\ log[i].conn # log[j].conn

\* The operation a line carries in the wire format of the specification,
\* "OPERATION <op> <operand>": operator + - * /, operand 0..255, divisor # 0.
WireOperation(line) ==
    LET t == split_whitespace(line)
    IN  IF Len(t) = 3 /\ t[1] = "OPERATION" /\ t[2] \in {"+", "-", "*", "/"}
        THEN Operation_from_str(t[2] \o " " \o t[3])
        ELSE OpErr("")

RECURSIVE FoldWire(_, _)
FoldWire(lines, n) ==
    IF n = 0 THEN 0
    ELSE ArithRef(FoldWire(lines, n - 1), WireOperation(lines[n]).op)

\* C2: valid operations sent over one connection to a fresh server, then GET:
\* the value returned is the left fold of the arithmetic over them from 0.
C2_FoldOverWire ==
    \A n \in 2..Len(reqs[1]) :
        ( /\ \A k \in 1..(n - 1) : WireOperation(reqs[1][k]).ok
          /\ reqs[1][n] = "GET\n"
          /\ Answered(1, n) )
        => out[1][n] = "VALUE " \o u8_to_string(FoldWire(reqs[1], n - 1)) \o "\n"

\* C3: on a fresh server 'OPERATION + 1' then 'GET' are answered 'OK' and
\* then 'VALUE 1'.
C3_OperationThenGet ==
    ( /\ Len(reqs[1]) >= 2
      /\ reqs[1][1] = "OPERATION + 1\n"
      /\ reqs[1][2] = "GET\n"
      /\ Answered(1, 2) )
    => (out[1][1] = "OK\n" /\ out[1][2] = "VALUE 1\n")

\* C4: every line read whose first token is OPERATION and that has exactly
\* two further tokens t1, t2 decodes to OperationRequest carrying "t1 t2".
C4_DecodeOperation ==
    \A k \in 1..Len(reqs[1]) :
        LET t == split_whitespace(reqs[1][k])
        IN  (Len(t) = 3 /\ t[1] = "OPERATION")
            => from_bytes(trim_end(reqs[1][k])) = Operation(t[2] \o " " \o t[3])

\* C5: 'OPERATION / 0' is answered with an ErrorResponse containing
\* 'division by zero', is not applied, and the handler goes on reading.
C5_DivisionByZero ==
    \A k \in 1..Len(reqs[1]) :
        (reqs[1][k] = "OPERATION / 0\n" /\ Answered(1, k))
        => /\ Contains(out[1][k], "division by zero")
           /\ from_bytes(out[1][k]).kind = "ErrorOperation"
           /\ ~Applied(1, k)
           /\ (Len(reqs[1]) = k => pc[1] # "panicked")

\* C6: an operation request with an unknown operator X and a valid operand is
\* answered with an ErrorResponse containing 'unknown operation: X' and is
\* not applied.
C6_UnknownOperator ==
    \A k \in 1..Len(reqs[1]) :
        LET t == split_whitespace(reqs[1][k])
        IN  ( /\ Len(t) = 3 /\ t[1] = "OPERATION"
              /\ t[2] \notin {"+", "-", "*", "/"}
              /\ parse_u8(t[3]).ok
              /\ Answered(1, k) )
            => /\ Contains(out[1][k], "unknown operation: " \o t[2])
               /\ from_bytes(out[1][k]).kind = "ErrorOperation"
               /\ ~Applied(1, k)

\* C7: an operation request whose operand is not a decimal integer in 0..255
\* is answered with an ERROR response carrying the numeric-parse failure
\* description, and is not applied.
C7_InvalidOperand ==
    \A k \in 1..Len(reqs[1]) :
        LET t == split_whitespace(reqs[1][k])
        IN  ( /\ Len(t) = 3 /\ t[1] = "OPERATION"
              /\ ~parse_u8(t[3]).ok
              /\ Answered(1, k) )
            => /\ Contains(out[1][k], parse_u8(t[3]).err)
               /\ from_bytes(out[1][k]).kind = "ErrorOperation"
               /\ ~Applied(1, k)

\* A line that starts with none of the keywords of the protocol.
NoKeyword(line) ==
    LET t == split_whitespace(line)
    IN  Len(t) >= 1 /\ t[1] \notin {"OPERATION", "OP", "GET", "OK", "ERROR", "VALUE"}

\* The connection stayed usable after request k: the handler did not end on
\* it, and a GET that follows it is answered with a VALUE line.
UsableAfter(c, k) ==
    /\ (Len(reqs[c]) = k /\ Len(out[c]) = k) => pc[c] \in {"read", "closed", "fatal"}
    /\ (Len(reqs[c]) = k /\ Len(out[c]) = k /\ pc[c] = "fatal")
          => error[c] = "ReadFailed"
    /\ (Answered(c, k + 1) /\ reqs[c][k + 1] = "GET\n")
          => \E v \in 0..255 : out[c][k + 1] = "VALUE " \o u8_to_string(v) \o "\n"

C9_UnexpectedKinds ==
    \A k \in 1..Len(reqs[1]) :
        LET line == reqs[1][k]
            texts == {line, trim_end(line), join(split_whitespace(line), " ")}
        IN  ( /\ from_bytes(trim_end(line)).kind
                    \in {"Ok", "Value", "ErrorOperation", "SynthaxError"}
              /\ Answered(1, k) )
            => /\ \E t \in texts :
                    out[1][k] = "ERROR \"unexpected message: " \o t \o "\"\n"
               /\ UsableAfter(1, k)

\* C10: two GETs served with no operation applied between their reads of
\* the accumulator are answered with the same VALUE text.
C10_SameValue ==
    \A i, j \in DOMAIN log :
        ( /\ i < j
          /\ log[i].kind = "read" /\ log[j].kind = "read"
          /\ \A m \in (i + 1)..(j - 1) : log[m].kind # "apply"
          /\ Answered(log[i].conn, log[i].req)
          /\ Answered(log[j].conn, log[j].req) )
        => /\ out[log[i].conn][log[i].req] = out[log[j].conn][log[j].req]
           /\ from_bytes(out[log[i].conn][log[i].req]).kind = "Value"

\* C10 witness: after an operation was applied, two connections each had a
\* GET answered with nothing applied between the two reads.
C10_Witness ==
    \E i, j \in DOMAIN log :
        /\ 1 < i /\ j = i + 1
        /\ log[1].kind = "apply"
        /\ log[i].kind = "read" /\ log[j].kind = "read"
        /\ log[i].conn # log[j].conn
        /\ calculator[1].accumulation # 0
        /\ Answered(log[i].conn, log[i].req)
        /\ Answered(log[j].conn, log[j].req)

\* C11: for every message m of the variants OperationRequest, GetRequest,
\* OkResponse, ErrorResponse and ValueResponse, decoding the encoding of m
\* yields the same variant with the same payload.
C11_RoundTrip ==
    decoded # <<>> => decoded[1] = message

\* What the handler of connection d works on, and what it shares.
HandlerState(d) ==
    <<pc[d], buf[d], operation[d], response[d], error[d], reqs[d], out[d]>>

\* C12: a write failure while responding terminates only the handler of that
\* connection: the step leaves the accumulator, its lock and the log of
\* applied operations as they were (nothing is rolled back), the listener
\* keeps running, and every other handler is exactly where it was, so it is
\* served as before.
C12_WriteFailureLocal ==
    [][\A c \in Conns :
          (pc[c] = "write" /\ pc'[c] = "fatal") =>
             /\ error'[c] = "WriteFailed"
             /\ calculator' = calculator
             /\ lock' = lock
             /\ lock.holder # c
             /\ log' = log
             /\ listener' = listener
             /\ \A d \in Conns \ {c} : HandlerState(d)' = HandlerState(d)]_vars

\* C12 witness: the write of OK for an applied operation failed on one
\* connection, and a GET read afterwards in the lock order by another
\* connection was answered with the value that operation left.
C12_Witness ==
    \E c, d \in Conns :
        /\ c # d
        /\ error[c] = "WriteFailed"
        /\ Len(reqs[c]) = 1 /\ out[c] = <<>>
        /\ log = <<[kind |-> "apply", conn |-> c, req |-> 1],
                   [kind |-> "read", conn |-> d, req |-> 1]>>
        /\ out[d] = <<"VALUE 254\n">>
        /\ calculator[1].accumulation = 254

\* C13: when a read returns zero bytes the handler terminates with success:
\* the step writes no response, sets no error, and leaves the accumulator,
\* its lock, the log and every other handler as they were; a handler that
\* terminated this way has as many responses as answered requests and no
\* error.
C13_EofTerminates ==
    [][\A c \in Conns :
          (pc[c] # "closed" /\ pc'[c] = "closed") =>
             /\ pc[c] = "read"
             /\ error'[c] = "" /\ error[c] = ""
             /\ out' = out
             /\ Len(out[c]) = Len(reqs[c])
             /\ reqs' = reqs
             /\ calculator' = calculator
             /\ lock' = lock
             /\ lock.holder # c
             /\ log' = log
             /\ listener' = listener
             /\ \A d \in Conns \ {c} : HandlerState(d)' = HandlerState(d)]_vars

\* C13 witness: a peer closed after one answered request while the other
\* connection was still being served.
C13_Witness ==
    \E c, d \in Conns :
        /\ c # d
        /\ pc[c] = "closed" /\ Len(reqs[c]) = 1 /\ Len(out[c]) = 1
        /\ pc[d] = "write"

\* C14: once the lock is poisoned it stays poisoned, the accumulator is no
\* longer read or modified by anyone, and every handler that then calls
\* apply or read fails with PoisonError: it ends in the fatal state with its
\* request unanswered, no OK or VALUE written.
C14_PoisonFailsFast ==
    [][lock.poisoned =>
          /\ lock'.poisoned
          /\ calculator' = calculator
          /\ log' = log
          /\ \A c \in Conns :
                /\ pc'[c] \notin {"apply", "get"}
                /\ (pc[c] \in {"lock_apply", "lock_get"} /\ pc'[c] # pc[c]) =>
                      /\ pc'[c] = "fatal"
                      /\ error'[c] = "PoisonError"
                      /\ out'[c] = out[c]
                      /\ Len(out[c]) = Len(reqs[c]) - 1]_vars

\* C14 witness: with the lock poisoned, one handler failed on an operation
\* and another on a GET, both unanswered.
C14_Witness ==
    /\ lock.poisoned
    /\ \E c, d \in Conns :
          /\ c # d
          /\ pc[c] = "fatal" /\ error[c] = "PoisonError"
          /\ reqs[c] = <<"OP - 2\n">> /\ out[c] = <<>>
          /\ pc[d] = "fatal" /\ error[d] = "PoisonError"
          /\ reqs[d] = <<"GET\n">> /\ out[d] = <<>>
    /\ calculator[1].accumulation = 0

\* C15: a handler holds the accumulator lock exactly while it is inside
\* apply_operation or get_value with the guard: never while it reads from or
\* writes to its connection, and the lock is released before the call
\* returns.
C15_NoLockAcrossIO ==
    /\ lock.holder \in Conns \cup {0}
    /\ \A c \in Conns : (lock.holder = c) <=> (pc[c] \in {"apply", "get"})

\* C15 witness: one handler is writing the response of the access it just
\* made while another holds the lock.
C15_Witness ==
    \E c, d \in Conns :
        /\ c # d
        /\ pc[c] = "write"
        /\ log # <<>> /\ log[Len(log)].conn = c
        /\ lock.holder = d

\* C16: within one connection requests are processed strictly in the order
\* sent: a handler reads its next request only when every request it read
\* has been answered, at most one request is unanswered at any time, and
\* its accesses to the accumulator are in the order of its requests, one per
\* request at most.
C16_InOrder ==
    /\ [](/\ \A c \in Conns : Len(reqs[c]) - Len(out[c]) \in {0, 1}
          /\ \A i, j \in DOMAIN log :
                (i < j /\ log[i].conn = log[j].conn) => log[i].req < log[j].req)
    /\ [][\A c \in Conns :
             /\ reqs'[c] # reqs[c] =>
                   /\ Len(out[c]) = Len(reqs[c])
                   /\ SubSeq(reqs'[c], 1, Len(reqs[c])) = reqs[c]
                   /\ Len(reqs'[c]) = Len(reqs[c]) + 1
             /\ out'[c] # out[c] =>
                   /\ Len(out'[c]) = Len(reqs[c])
                   /\ SubSeq(out'[c], 1, Len(out[c])) = out[c]
             /\ log' # log =>
                   /\ SubSeq(log', 1, Len(log)) = log
                   /\ Len(log') = Len(log) + 1]_vars

\* C16 witness: one connection had two operations applied and answered, in
\* the order it sent them.
C16_Witness ==
    \E c \in Conns :
        /\ reqs[c] = <<"OP - 2\n", "OP * 3\n">>
        /\ out[c] = <<"OK\n", "OK\n">>
        /\ log = <<[kind |-> "apply", conn |-> c, req |-> 1],
                   [kind |-> "apply", conn |-> c, req |-> 2]>>
        /\ calculator[1].accumulation = 250

\* The next connection to arrive.
NextConn(c) == pc[c] = "none" /\ \A d \in Conns : d < c => pc[d] # "none"

\* C17: a failed accept does not terminate the listener: the failing step
\* changes nothing but the reported outcome, after it the accept loop is
\* still running and able to accept the next connection, and an accept that
\* follows a failure starts a handler for that connection.
C17_AcceptFailureContinues ==
    /\ [](last_accept = "err" =>
            /\ listener = "listening"
            /\ \A c \in Conns : NextConn(c) => ENABLED Accept(c))
    /\ [][(last_accept' = "err" /\ last_accept # "err") =>
             /\ listener' = listener
             /\ calculator' = calculator
             /\ \A d \in Conns : HandlerState(d)' = HandlerState(d)]_vars
    /\ [][(last_accept = "err" /\ last_accept' = "ok") =>
             \E c \in Conns :
                 /\ NextConn(c)
                 /\ pc'[c] = "read"
                 /\ \A d \in Conns \ {c} : pc'[d] = pc[d]]_vars

\* C17 witness: an accept failed after the first connection was dispatched,
\* the loop is running and the second connection can be accepted.
C17_Witness ==
    /\ last_accept = "err"
    /\ pc[1] \notin {"none", "closed", "fatal"}
    /\ Len(reqs[1]) >= 1
    /\ NextConn(2)
    /\ ENABLED Accept(2)

\* The value the operations applied by the first n accesses of the log
\* leave, from 0, whatever connection they came from.
RECURSIVE FoldLog(_)
FoldLog(n) ==
    IF n = 0 THEN 0
    ELSE IF log[n].kind = "apply"
         THEN ArithRef(FoldLog(n - 1), parsed[log[n].conn][log[n].req].op)
         ELSE FoldLog(n - 1)

\* C18: each accepted connection gets one handler, started by the accept
\* step and never started again; there is one accumulator, created once when
\* the server starts, and every handler works on it: a GET on any connection
\* is answered with the value left by all the operations applied before it,
\* through whatever connection.
C18_OneSharedAccumulator ==
    /\ [](/\ Len(calculator) <= 1
          /\ (calculator = <<>>) <=> (listener \in {"init", "bind_failed"})
          /\ \A j \in DOMAIN log :
                (log[j].kind = "read" /\ Answered(log[j].conn, log[j].req)) =>
                   out[log[j].conn][log[j].req]
                      = "VALUE " \o u8_to_string(FoldLog(j)) \o "\n")
    /\ [][/\ calculator = <<>> => calculator' \in {<<>>, <<Calculator_new>>}
          /\ calculator # <<>> =>
                \/ calculator' = calculator
                \/ \E c \in Conns : pc[c] = "apply" /\ lock.holder = c
          /\ \A c \in Conns :
                /\ pc[c] # "none" => pc'[c] # "none"
                /\ (pc[c] = "none" /\ pc'[c] # "none") =>
                      /\ pc'[c] = "read"
                      /\ \A d \in Conns \ {c} : pc'[d] = pc[d]]_vars

\* C18 witness: an operation applied through each of two connections, then a
\* GET on one of them answered with the value both left.
C18_Witness ==
    /\ reqs[1] = <<"OP - 2\n">>
    /\ reqs[2] = <<"OP * 3\n", "GET\n">>
    /\ log = <<[kind |-> "apply", conn |-> 1, req |-> 1],
               [kind |-> "apply", conn |-> 2, req |-> 1],
               [kind |-> "read", conn |-> 2, req |-> 2]>>
    /\ out[2] = <<"OK\n", "VALUE 250\n">>

\* A handler that has not returned.
Live(c) == pc[c] \in {"read", "lock_apply", "lock_get", "apply", "get", "write"}

\* C19: the dispatcher never waits for a handler: while the listener runs,
\* the next connection can be accepted and dispatched whatever the earlier
\* handlers are doing, with no limit on the handlers alive at once.
C19_AcceptNeverWaits ==
    listener = "listening" =>
        \A c \in Conns : NextConn(c) => ENABLED Accept(c)

\* C19 witness: every connection has a live handler at once, one inside the
\* lock and another with a request in progress.
C19_Witness ==
    /\ \A c \in Conns : Live(c)
    /\ \E c, d \in Conns :
          /\ c < d
          /\ pc[c] \in {"lock_apply", "lock_get", "write"}
          /\ pc[d] \in {"apply", "get"}

\* C20: if binding the listening address fails, run_server returns the
\* BindFailed error: the accumulator has not been created, no connection has
\* been accepted, no handler has been started, and nothing happens after.
C20_BindFailureReturns ==
    /\ [](listener = "bind_failed" =>
            /\ calculator = <<>>
            /\ last_accept = "none"
            /\ \A c \in Conns : pc[c] = "none" /\ reqs[c] = <<>> /\ out[c] = <<>>
            /\ log = <<>>)
    /\ [][listener # "bind_failed"]_vars
    /\ [][listener' = "bind_failed" => listener = "init"]_vars

\* C20 witness: the bind failed.
C20_Witness ==
    /\ listener = "bind_failed"
    /\ ~ENABLED Next

\* C21: the client replays its lines one at a time, one response line read
\* after each, then sends a GET; once that GET has been answered and the
\* client has ended, it has printed the VALUE the server returned for it,
\* the accumulator's value after all of the client's lines.
C21_ClientPrintsFinalValue ==
    /\ cl_sent - cl_read \in {0, 1}
    /\ (cl_pc \in {"done", "failed"} /\ Answered(1, Len(file) + 1)) =>
          /\ cl_pc = "done"
          /\ printed = <<u8_to_string(calculator[1].accumulation)>>
          /\ out[1][Len(file) + 1] = "VALUE " \o printed[1] \o "\n"

\* The shutdown message has been sent.
ShutdownSent == \E i \in DOMAIN sent : sent[i].kind = "CloseConnection"

\* The events sent before the first shutdown message (all of them while no
\* shutdown has been sent).
BeforeShutdown ==
    IF ShutdownSent
    THEN SubSeq(sent, 1,
                (CHOOSE i \in DOMAIN sent :
                    /\ sent[i].kind = "CloseConnection"
                    /\ \A j \in 1..(i - 1) : sent[j].kind # "CloseConnection") - 1)
    ELSE sent

\* The lines of a sequence of Info and Error events.
LogLines(events) == [i \in DOMAIN events |-> log_line(events[i])]

\* a is b with some of its elements left out.
RECURSIVE IsSubSeq(_, _)
IsSubSeq(a, b) ==
    IF a = <<>> THEN TRUE
    ELSE IF b = <<>> THEN FALSE
    ELSE IF Head(a) = Head(b) THEN IsSubSeq(Tail(a), Tail(b))
    ELSE IsSubSeq(a, Tail(b))

C23_AccumulatorArithmetic ==
    /\ [](calculator # <<>> => calculator[1].accumulation \in 0..255)
    /\ [][(calculator = <<>> /\ calculator' # <<>>) =>
             calculator' = <<[accumulation |-> 0]>>]_vars
    /\ [][(calculator # <<>> /\ calculator' # calculator) =>
             \E c \in Conns :
                 /\ pc[c] = "apply"
                 /\ operation[c].op \in {"Add", "Sub", "Mul", "Div"}
                 /\ operation[c].n \in 0..255
                 /\ operation[c].op = "Div" => operation[c].n # 0
                 /\ calculator' =
                       <<[accumulation |->
                            ArithRef(calculator[1].accumulation, operation[c])]>>]_vars

\* C23 witness: a subtraction wrapped below 0 and a multiplication wrapped
\* above 255.
C23_Witness ==
    /\ reqs[1] = <<"OP - 2\n", "OP * 3\n">>
    /\ Len(log) = 2
    /\ calculator[1].accumulation = 250

\* The handlers inside the critical section: between lock() and the drop of
\* the guard.
InCriticalSection == {c \in Conns : pc[c] \in {"apply", "get"}}

\* C24: at most one handler is inside the accumulator's critical section at
\* any time, and the value a read or an apply finds there is the complete
\* result of the applies that came before it in the lock order.
C24_MutualExclusion ==
    /\ Cardinality(InCriticalSection) <= 1
    /\ calculator # <<>> => calculator[1].accumulation = FoldLog(Len(log))

\* C24 witness: a handler is inside the critical section after an earlier
\* apply while another handler waits for the lock.
C24_Witness ==
    \E c, d \in Conns :
        /\ c # d
        /\ pc[c] \in {"apply", "get"}
        /\ pc[d] \in {"lock_apply", "lock_get"}
        /\ ~ENABLED MutexLock(d)
        /\ \E i \in DOMAIN log : log[i].kind = "apply"

\* C25: under fair scheduling a handler that has read a request line
\* eventually has its response written, or terminates on a write failure,
\* whatever the other connections' peers do or do not do.
C25_EventuallyAnswered ==
    \A c \in Conns :
        (Len(out[c]) < Len(reqs[c]) /\ pc[c] # "fatal")
            ~> \/ Len(out[c]) = Len(reqs[c])
               \/ pc[c] = "fatal" /\ error[c] = "WriteFailed"

\* C25 witness: one peer connected and never sent anything; another had all
\* its requests answered meanwhile.
C25_Witness ==
    \E c, d \in Conns :
        /\ c < d
        /\ pc[c] = "read" /\ reqs[c] = <<>>
        /\ Len(reqs[d]) = MaxFairReq
        /\ Len(out[d]) = MaxFairReq
        /\ \E i \in DOMAIN log : log[i].kind = "apply"

Last(s) == s[Len(s)]

\* The handler has reached the end of handle_connection.
Terminated(c) == pc[c] \in {"closed", "fatal", "panicked"}

\* Lines the handler is to answer with an error and go on: the bytes do not
\* decode, the message is of an unexpected kind, or the operation does not
\* parse.
Recoverable(line) ==
    LET p == from_bytes(line)
    IN  \/ p.kind \notin {"Operation", "Get"}
        \/ p.kind = "Operation" /\ ~Operation_from_str(p.arg).ok

\* C26: a handler terminates only Closed on end-of-stream, or Fatal on a
\* read failure, a write failure or an unusable lock; a line that fails to
\* decode, is of an unexpected kind or holds an operation that does not
\* parse never terminates it: it responds with an error and then awaits the
\* next line.
C26_TerminatesOnlyClosedOrFatal ==
    [][\A c \in Conns :
          /\ (~Terminated(c) /\ Terminated(c)') =>
                \/ /\ pc'[c] = "closed" /\ pc[c] = "read"
                   /\ reqs'[c] = reqs[c] /\ error'[c] = ""
                \/ /\ pc'[c] = "fatal" /\ pc[c] = "read"
                   /\ error'[c] = "ReadFailed"
                \/ /\ pc'[c] = "fatal" /\ pc[c] = "write"
                   /\ error'[c] = "WriteFailed"
                \/ /\ pc'[c] = "fatal" /\ pc[c] \in {"lock_apply", "lock_get"}
                   /\ error'[c] = "PoisonError" /\ lock.poisoned
          /\ (/\ pc[c] = "read"
              /\ Len(reqs'[c]) > Len(reqs[c])
              /\ Recoverable(Last(reqs'[c]))) =>
                /\ pc'[c] = "write"
                /\ response'[c].kind = "ErrorOperation"
          /\ (pc[c] = "write" /\ out'[c] # out[c]) => pc'[c] = "read"]_vars

\* C27: the accumulator changes only in the step that applies an operation
\* parsed from an OP request line; reading any line (GET, an unexpected or
\* malformed line, a rejected operation), the end of the stream, a read
\* failure and every other step leave it unchanged.
C27_AccumulatorFrame ==
    [][calculator # <<>> =>
          /\ calculator' # calculator =>
                \E c \in Conns :
                    /\ pc[c] = "apply" /\ pc'[c] = "write"
                    /\ LET p == from_bytes(Last(reqs[c]))
                       IN  /\ p.kind = "Operation"
                           /\ Operation_from_str(p.arg).ok
                           /\ calculator' =
                                <<apply(calculator[1],
                                        Operation_from_str(p.arg).op).calc>>
          /\ \A c \in Conns :
                (pc[c] \in {"read", "lock_get", "get", "write"}
                    /\ HandlerState(c)' # HandlerState(c)) =>
                        calculator' = calculator]_vars

\* C27 witness: after an operation was applied, the same peer had a rejected
\* operation answered and closed, another peer's read failed, and the
\* accumulator still holds what the operation left.
C27_Witness ==
    \E c, d \in Conns :
        /\ c # d
        /\ reqs[c] = <<"OP - 2\n", "OP / 0\n">>
        /\ Len(out[c]) = 2
        /\ pc[c] = "closed"
        /\ pc[d] = "fatal" /\ error[d] = "ReadFailed"
        /\ calculator[1].accumulation = 254

\* What the claim says of an operator and an operand text: the operand is
\* validated first, the zero divisor is looked at only for "/".
ParseRef(operator, operand) ==
    IF operand \notin {"0", "2"}
    THEN [ok |-> FALSE, op |-> NoOp,
          err |-> "parsing error: invalid integer: invalid digit found in string"]
    ELSE LET n == IF operand = "0" THEN 0 ELSE 2
         IN  CASE operator = "+" -> [ok |-> TRUE, op |-> Add(n), err |-> ""]
               [] operator = "-" -> [ok |-> TRUE, op |-> Sub(n), err |-> ""]
               [] operator = "*" -> [ok |-> TRUE, op |-> Mul(n), err |-> ""]
               [] operator = "/" /\ n # 0 ->
                    [ok |-> TRUE, op |-> Div(n), err |-> ""]
               [] operator = "/" /\ n = 0 ->
                    [ok |-> FALSE, op |-> NoOp, err |-> "division by zero"]
               [] OTHER ->
                    [ok |-> FALSE, op |-> NoOp,
                     err |-> "parsing error: unknown operation: " \o operator]

\* C28: the operation parser validates the operand before the operator and
\* looks for a zero divisor only under "/": an unknown operator with an
\* invalid operand gives the invalid-operand error, an unknown operator with
\* operand 0 gives the unknown-operator error, and +, - and * accept 0.
C28_OperandBeforeOperator ==
    \A i \in DOMAIN reqs[1] :
        LET tokens == split_whitespace(reqs[1][i])
        IN  tokens # <<"GET">> =>
              /\ Len(tokens) = 3
              /\ parsed[1][i] = ParseRef(tokens[2], tokens[3])
              /\ Len(out[1]) >= i =>
                    out[1][i] =
                        IF parsed[1][i].ok THEN "OK\n"
                        ELSE "ERROR \"" \o ParseRef(tokens[2], tokens[3]).err
                                 \o "\"\n"

\* C28 witness: an unknown operator with an invalid operand and an unknown
\* operator with operand 0 were both parsed and answered.
C28_Witness ==
    /\ reqs[1] = <<"OP % abc\n", "OP % 0\n">>
    /\ Len(out[1]) = 2
    /\ parsed[1][2].err = "parsing error: unknown operation: %"

\* C29: decode is total and classifies by keyword and exact arity: GET alone
\* gives GetRequest, OK alone gives OkResponse, VALUE with exactly one token
\* gives ValueResponse, ERROR with zero or more tokens gives ErrorResponse
\* of the space-joined remainder, and every other token sequence (wrong
\* arity, unknown keyword, empty line) gives SyntaxError carrying the
\* space-joined tokens. The operation request of the specification, the
\* keyword OPERATION with two tokens, is left to C4.
C29_DecodeByKeywordAndArity ==
    decoded # <<>> =>
        LET bytes == encoded[1]
            d == decoded[1]
            t == split_whitespace(bytes)
        IN  IF ~is_utf8(bytes) THEN d.kind = "SynthaxError"
            ELSE CASE t = <<"GET">> -> d = Get
                   [] t = <<"OK">> -> d = Ok
                   [] Len(t) = 2 /\ t[1] = "VALUE" -> d = Value(t[2])
                   [] Len(t) >= 1 /\ t[1] = "ERROR" ->
                        d = ErrorOperation(join(Tail(t), " "))
                   [] Len(t) = 3 /\ t[1] = "OPERATION" -> TRUE
                   [] OTHER -> d = SynthaxError(join(t, " "))

\* C30: for every request line it reads the handler writes exactly one
\* newline-terminated response line before it reads the next, so the k-th
\* line the peer reads is the response to its k-th request, whatever kind
\* of line the peer sent (OK, VALUE and ERROR lines included).
C30_OneResponseLinePerRequest ==
    /\ Len(reqs[1]) - Len(out[1]) \in {0, 1}
    /\ \A k \in DOMAIN out[1] : read_lines(out[1][k]) = <<out[1][k]>>

\* C31: no handler calls Calculator::apply with Div(0): no handler panics
\* while it holds the lock, the lock is never poisoned, and no handler ends
\* with PoisonError.
C31_NeverPoisoned ==
    /\ ~lock.poisoned
    /\ \A c \in Conns :
          /\ pc[c] # "panicked"
          /\ error[c] # "PoisonError"
          /\ pc[c] \in {"lock_apply", "apply"} =>
                /\ operation[c] # Div(0)
                /\ ~apply(calculator[1], operation[c]).panic

\* C31 witness: a division by zero was rejected, a division was applied,
\* and the lock was taken again afterwards.
C31_Witness ==
    /\ reqs[1] = <<"OP / 0\n", "OP / 2\n">>
    /\ out[1] = <<"ERROR \"division by zero\"\n", "OK\n">>
    /\ \E i \in DOMAIN log : log[i].kind = "apply"

\* The applications of the operation of request k of connection c.
Applications(c, k) ==
    {i \in DOMAIN log :
        log[i] = [kind |-> "apply", conn |-> c, req |-> k]}

\* C32: whenever a handler has sent OK for a request, the operation of that
\* request was applied exactly once, and before the OK was written. An
\* applied operation without its OK is one whose OK is still to be written,
\* or whose write failed: the handler then terminated and the operation
\* stays applied.
C32_OkMeansApplied ==
    /\ [](\A c \in Conns :
            /\ \A k \in DOMAIN out[c] :
                  out[c][k] = "OK\n" => Cardinality(Applications(c, k)) = 1
            /\ \A k \in DOMAIN reqs[c] :
                  (Applications(c, k) # {} /\ k > Len(out[c])) =>
                      /\ k = Len(reqs[c])
                      /\ Cardinality(Applications(c, k)) = 1
                      /\ \/ pc[c] = "write" /\ response[c] = Ok
                         \/ pc[c] = "fatal" /\ error[c] = "WriteFailed")
    /\ [][\A c \in Conns :
             /\ (out'[c] # out[c] /\ Last(out'[c]) = "OK\n") =>
                   /\ Applications(c, Len(out'[c])) # {}
                   /\ log' = log
                   /\ calculator' = calculator
             /\ (pc[c] = "write" /\ pc'[c] = "fatal") =>
                   /\ log' = log
                   /\ calculator' = calculator]_vars

\* C32 witness: one handler wrote OK for its applied operation; the write
\* of OK failed for another, whose operation is applied all the same.
C32_Witness ==
    \E c, d \in Conns :
        /\ c # d
        /\ out[c] = <<"OK\n">>
        /\ Applications(c, 1) # {}
        /\ pc[d] = "fatal" /\ error[d] = "WriteFailed"
        /\ out[d] = <<>>
        /\ Applications(d, 1) # {}
        /\ calculator[1].accumulation = 252

\* A token: not empty and with no whitespace in it.
IsToken(x) ==
    /\ x # ""
    /\ \A j \in 1..Len(x) : ~is_whitespace(CharAt(x, j))

ArityError == "expected 2 arguments"

\* C33: the parser's arity error is unreachable through the wire protocol:
\* every text the handler passes to the operation parser is two
\* whitespace-free tokens joined by one space, since decode gives an
\* operation request only for exactly two tokens after the keyword.
C33_ArityErrorUnreachable ==
    \A i \in DOMAIN reqs[1] :
        LET line == reqs[1][i]
            p == from_bytes(trim_end(line))
            t == split_whitespace(line)
        IN  /\ parsed[1][i].err # ArityError
            /\ Len(out[1]) >= i => ~Contains(out[1][i], ArityError)
            /\ p.kind = "Operation" =>
                  /\ Len(t) = 3
                  /\ IsToken(t[2]) /\ IsToken(t[3])
                  /\ p.arg = t[2] \o " " \o t[3]
                  /\ parsed[1][i] = Operation_from_str(p.arg)

\* C33 witness: OP with one argument was answered as an unexpected message
\* and OP with two arguments separated by repeated whitespace was parsed
\* and applied.
C33_Witness ==
    /\ reqs[1] = <<"OP +\n", "OP  + \t1\n">>
    /\ out[1] = <<"ERROR \"unexpected message: OP +\"\n", "OK\n">>
    /\ parsed[1][2] = OpOk(Add(1))
    /\ calculator[1].accumulation = 1

\* The client waits in read_line for a response that is not there, and the
\* handler waits in read_line for a newline that is not there.
BothBlocked ==
    /\ cl_pc \in {"await", "await_value"}
    /\ cl_read = Len(ServerStream)
    /\ pc[1] = "read"
    /\ read_lines(Unread) = <<>>

\* C34: for every input file a client talking to a live server terminates:
\* each line it sent and the trailing GET are answered, and client and
\* server are never both blocked waiting on each other, also when the last
\* line of the file has no trailing newline or a line is empty.
C34_ClientTerminates ==
    /\ ~BothBlocked
    /\ cl_pc = "done" =>
          /\ cl_sent = Len(file) + 1
          /\ cl_read = cl_sent
          /\ Len(out[1]) = cl_sent

====
